---------------------------- MODULE Spec2Model ----------------------------
(***************************************************************************)
(* Model of scripts/process-image.js: the quadrant OCR extraction of four  *)
(* water-quality readings and their persistence.                           *)
(*                                                                         *)
(* Strings are sequences of one-character strings.  A JavaScript number is *)
(* an exact decimal [neg, mant, exp] = (-1)^neg * mant / 10^exp; the sign  *)
(* is kept apart so that -0 exists, as it does in JavaScript.              *)
(***************************************************************************)
EXTENDS Integers, Sequences, FiniteSets, TLC

\* ------------------------------------------------------------------ bounds
\* Longest OCR text enumerated for extractNumericValue.
MaxLen == 4
\* Largest image side enumerated for the quadrant partition.
MaxSide == 8
\* Largest reported width/height enumerated in a run of main.
MaxDim == 2
\* Largest number of pieces a file path is built from.
MaxPieces == 4
\* Largest number of changed image files in one push.
MaxFiles == 2
\* Largest number of blank-separated words in a file name.
MaxWords == 2

\* ------------------------------------------------------------- vocabulary
Parameters == {"pH", "temperature", "dissolvedOxygen", "salinity"}

Digits == {"0", "1", "2", "3", "4", "5", "6", "7", "8", "9"}

DigitChar == <<"0", "1", "2", "3", "4", "5", "6", "7", "8", "9">>

DigitVal(c) == CHOOSE d \in 0..9 : DigitChar[d + 1] = c

\* Characters of the enumerated OCR texts: four digits that reach both sides
\* of every range bound, the dot, the minus sign, whitespace, and a letter
\* standing for any character outside [\d.\s-].  No "5": a decimal that ends
\* in 5 is where toFixed depends on the binary expansion of the double.
Alphabet == {"0", "1", "4", "7", ".", "-", " ", "p"}

RECURSIVE Pow10(_)
Pow10(k) == IF k = 0 THEN 1 ELSE 10 * Pow10(k - 1)

\* ------------------------------------------------- String.prototype pieces
IsSpace(c) == c = " "

IsKept(c) == c \in Digits \/ c = "." \/ IsSpace(c) \/ c = "-"

\* text.replace(/[^\d.\s-]/g, ' ')
ReplaceOthers(s) == [i \in 1..Len(s) |-> IF IsKept(s[i]) THEN s[i] ELSE " "]

RECURSIVE TrimLeft(_)
TrimLeft(s) ==
    IF s # <<>> /\ IsSpace(Head(s)) THEN TrimLeft(Tail(s)) ELSE s

RECURSIVE TrimRight(_)
TrimRight(s) ==
    IF s # <<>> /\ IsSpace(s[Len(s)])
    THEN TrimRight(SubSeq(s, 1, Len(s) - 1))
    ELSE s

Trim(s) == TrimRight(TrimLeft(s))

CleanText(text) == Trim(ReplaceOthers(text))

\* Number of digit characters of s from position i on (greedy \d*).
RECURSIVE DigitRun(_, _)
DigitRun(s, i) ==
    IF i <= Len(s) /\ s[i] \in Digits THEN 1 + DigitRun(s, i + 1) ELSE 0

\* MatchLenAt for the pattern /\d+\.?\d*/, which has no sign.
MatchLenAtUnsigned(s, i) ==
    LET int  == DigitRun(s, i)
        dot  == IF int > 0 /\ i + int <= Len(s) /\ s[i + int] = "."
                THEN 1 ELSE 0
        frac == IF dot = 1 THEN DigitRun(s, i + int + 1) ELSE 0
    IN  IF int = 0 THEN 0 ELSE int + dot + frac

\* Length of the match of /-?\d+\.?\d*/ that starts at position i; 0 if the
\* pattern does not match there.
MatchLenAt(s, i) ==
    LET sign == IF i < Len(s) /\ s[i] = "-" /\ s[i + 1] \in Digits
                THEN 1 ELSE 0
        int  == DigitRun(s, i + sign)
        dot  == IF int > 0 /\ i + sign + int <= Len(s)
                           /\ s[i + sign + int] = "."
                THEN 1 ELSE 0
        frac == IF dot = 1 THEN DigitRun(s, i + sign + int + 1) ELSE 0
    IN  IF int = 0 THEN 0 ELSE sign + int + dot + frac

\* cleanText.match(/-?\d+\.?\d*/g): leftmost non-overlapping matches from
\* position i on.  The empty sequence stands for null.
RECURSIVE MatchAllFrom(_, _)
MatchAllFrom(s, i) ==
    IF i > Len(s) THEN <<>>
    ELSE LET n == MatchLenAt(s, i)
         IN  IF n = 0 THEN MatchAllFrom(s, i + 1)
             ELSE <<SubSeq(s, i, i + n - 1)>> \o MatchAllFrom(s, i + n)

MatchNumbers(s) == MatchAllFrom(s, 1)

\* ------------------------------------------------------------- parseFloat
RECURSIVE DigitsToNat(_)
DigitsToNat(ds) ==
    IF ds = <<>> THEN 0
    ELSE 10 * DigitsToNat(SubSeq(ds, 1, Len(ds) - 1)) + DigitVal(ds[Len(ds)])

\* parseFloat of a token of the form -?\d+\.?\d*
ParseFloat(tok) ==
    LET neg  == tok[1] = "-"
        body == IF neg THEN Tail(tok) ELSE tok
        int  == DigitRun(body, 1)
        frac == IF int < Len(body) THEN Len(body) - int - 1 ELSE 0
        ds   == SubSeq(body, 1, int) \o SubSeq(body, int + 2, Len(body))
    IN  [neg |-> neg, mant |-> DigitsToNat(ds), exp |-> frac]

\* n >= c and n <= c for an integer c
SignedMant(n) == IF n.neg THEN 0 - n.mant ELSE n.mant

NumGeq(n, c) == SignedMant(n) >= c * Pow10(n.exp)

NumLeq(n, c) == SignedMant(n) <= c * Pow10(n.exp)

\* ------------------------------------------------ Number.prototype.toFixed
RECURSIVE NatToStr(_)
NatToStr(n) ==
    IF n < 10 THEN <<DigitChar[n + 1]>>
    ELSE NatToStr(n \div 10) \o <<DigitChar[(n % 10) + 1]>>

\* The integer nearest to |n| * 100, the larger one on a tie.
RoundedCents(n) ==
    IF n.exp <= 2 THEN n.mant * Pow10(2 - n.exp)
    ELSE (2 * n.mant + Pow10(n.exp - 2)) \div (2 * Pow10(n.exp - 2))

\* n.toFixed(2): the sign is printed when n < 0, which -0 is not.
ToFixed2(n) ==
    LET c == RoundedCents(n)
    IN  (IF n.neg /\ n.mant > 0 THEN <<"-">> ELSE <<>>)
        \o NatToStr(c \div 100) \o <<".">>
        \o <<DigitChar[((c \div 10) % 10) + 1], DigitChar[(c % 10) + 1]>>

\* ------------------------------------------------------ extractNumericValue
\* The literal "0.00" returned when no number is found.
NoNumber == <<"0", ".", "0", "0">>

RangeMin(parameter) == IF parameter = "temperature" THEN 0 - 10 ELSE 0

RangeMax(parameter) ==
    CASE parameter = "pH" -> 14
      [] parameter = "temperature" -> 60
      [] parameter = "dissolvedOxygen" -> 25
      [] parameter = "salinity" -> 50

InRange(n, parameter) ==
    NumGeq(n, RangeMin(parameter)) /\ NumLeq(n, RangeMax(parameter))

\* numbers.map(n => parseFloat(n)).filter(n => !isNaN(n)); every match of the
\* pattern starts with a digit after its sign, so none parses to NaN.
ValidNumbers(nums) == [i \in 1..Len(nums) |-> ParseFloat(nums[i])]

\* SelectValue taking the last value of the range filter instead of the first.
SelectValueLast(valid, parameter) ==
    LET inRange == SelectSeq(valid, LAMBDA n : InRange(n, parameter))
    IN  IF Len(inRange) > 0 THEN inRange[Len(inRange)] ELSE valid[1]

\* The switch: the first value of the range filter, else the first value.
SelectValue(valid, parameter) ==
    LET inRange == SelectSeq(valid, LAMBDA n : InRange(n, parameter))
    IN  IF Len(inRange) > 0 THEN inRange[1] ELSE valid[1]

extractNumericValue(txt, parameter) ==
    LET nums == MatchNumbers(CleanText(txt))
    IN  IF Len(nums) = 0 THEN NoNumber
        ELSE ToFixed2(SelectValue(ValidNumbers(nums), parameter))

\* ------------------------------------------------------------ extractUnitId
\* Largest i with s[i] = c, 0 if there is none.
LastIndexOf(s, c) ==
    LET hits == {i \in 1..Len(s) : s[i] = c}
    IN  IF hits = {} THEN 0 ELSE CHOOSE i \in hits : \A j \in hits : j <= i

\* path.basename(p) of a path that does not end in a separator.
PathBasename(p) == SubSeq(p, LastIndexOf(p, "/") + 1, Len(p))

\* path.extname(p): from the last dot of the basename on, unless that dot is
\* its first character or there is none.
PathExtname(p) ==
    LET b == PathBasename(p)
        d == LastIndexOf(b, ".")
    IN  IF d <= 1 THEN <<>> ELSE SubSeq(b, d, Len(b))

\* path.basename(filename, path.extname(filename))
BasenameNoExt(filename) ==
    LET b == PathBasename(filename)
    IN  SubSeq(b, 1, Len(b) - Len(PathExtname(filename)))

\* s.split('_')
RECURSIVE Split(_)
Split(s) ==
    LET hits == {i \in 1..Len(s) : s[i] = "_"}
    IN  IF hits = {} THEN <<s>>
        ELSE LET i == CHOOSE k \in hits : \A j \in hits : k <= j
             IN  <<SubSeq(s, 1, i - 1)>> \o Split(SubSeq(s, i + 1, Len(s)))

\* The pattern without its flag i.
LowerExact(c) == c

\* The flag i of the pattern: letters compare in lower case.
Lower(c) ==
    CASE c = "U" -> "u" [] c = "N" -> "n" [] c = "I" -> "i" [] c = "T" -> "t"
      [] OTHER -> c

\* Number of characters of [_\s] from position i on.
RECURSIVE SeparatorRun(_, _)
SeparatorRun(s, i) ==
    IF i <= Len(s) /\ (s[i] = "_" \/ IsSpace(s[i]))
    THEN 1 + SeparatorRun(s, i + 1) ELSE 0

\* The group (\d+) of /unit[_\s]*(\d+)/i matched at position i, <<>> if the
\* pattern does not match there.
UnitDigitsAt(s, i) ==
    IF /\ i + 3 <= Len(s)
       /\ <<Lower(s[i]), Lower(s[i + 1]), Lower(s[i + 2]), Lower(s[i + 3])>>
            = <<"u", "n", "i", "t">>
    THEN LET j == i + 4 + SeparatorRun(s, i + 4)
         IN  SubSeq(s, j, j + DigitRun(s, j) - 1)
    ELSE <<>>

\* basename.match(/unit[_\s]*(\d+)/i): the group of the leftmost match,
\* <<>> standing for null.
UnitMatch(s) ==
    LET hits == {i \in 1..Len(s) : UnitDigitsAt(s, i) # <<>>}
    IN  IF hits = {} THEN <<>>
        ELSE UnitDigitsAt(s, CHOOSE i \in hits : \A j \in hits : i <= j)

UnitPrefix == <<"u", "n", "i", "t", "_">>

\* `${parts[0]}_${parts[1]}`
JoinFirstTwo(parts) == parts[1] \o <<"_">> \o parts[2]

extractUnitId(filename) ==
    LET base == BasenameNoExt(filename)
        parts == Split(base)
    IN  IF Len(parts) >= 2 THEN JoinFirstTwo(parts)
        ELSE IF UnitMatch(base) # <<>> THEN UnitPrefix \o UnitMatch(base)
        ELSE UnitPrefix \o <<"1">>

\* ------------------------------------------- processImage: best-value loop
\* The literal "0.00" of the loop (initial bestValue, the two comparisons)
\* and of the catch block.
Placeholder == <<"0", ".", "0", "0">>

\* BestStep with >= in place of >: on equal confidence the later variant wins.
BestStepLaterWins(cur, ocr, parameter) ==
    LET numericValue == extractNumericValue(ocr.text, parameter)
    IN  IF numericValue # Placeholder /\ ocr.confidence >= cur.confidence
        THEN [value |-> numericValue, confidence |-> ocr.confidence]
        ELSE cur

\* One iteration of the loop over allTexts: cur is [value, confidence].
BestStep(cur, ocr, parameter) ==
    LET numericValue == extractNumericValue(ocr.text, parameter)
    IN  IF numericValue # Placeholder /\ ocr.confidence > cur.confidence
        THEN [value |-> numericValue, confidence |-> ocr.confidence]
        ELSE IF cur.value = Placeholder /\ numericValue # Placeholder
        THEN [value |-> numericValue, confidence |-> ocr.confidence]
        ELSE cur

InitialBest == [value |-> Placeholder, confidence |-> 0]

\* The loop from iteration i on.
RECURSIVE BestLoop(_, _, _, _)
BestLoop(cur, ocrs, i, parameter) ==
    IF i > Len(ocrs) THEN cur
    ELSE BestLoop(BestStep(cur, ocrs[i], parameter), ocrs, i + 1, parameter)

BestValue(ocrs, parameter) == BestLoop(InitialBest, ocrs, 1, parameter).value

\* ----------------------------------------------- processImage: quadrants
\* Half rounding up instead of down.
HalfCeil(n) == (n + 1) \div 2

\* Math.floor(n / 2)
Half(n) == n \div 2

Quadrants(w, h) ==
    [p \in Parameters |->
        CASE p = "temperature" ->
                [left |-> Half(w), top |-> 0, width |-> Half(w), height |-> Half(h)]
          [] p = "pH" ->
                [left |-> 0, top |-> 0, width |-> Half(w), height |-> Half(h)]
          [] p = "dissolvedOxygen" ->
                [left |-> 0, top |-> Half(h), width |-> Half(w), height |-> Half(h)]
          [] p = "salinity" ->
                [left |-> Half(w), top |-> Half(h), width |-> Half(w), height |-> Half(h)]]

\* ------------------------------------------------------------------- state
VARIABLES
    text,           \* extractNumericValue: the raw OCR text
    numbers,        \* extractNumericValue: the matched tokens, <<>> for null
    param,          \* the Parameter of the extraction or of the loop
    validNumbers,   \* extractNumericValue: the parsed values in scan order
    value,          \* extractNumericValue: the returned string
    epc,            \* extractNumericValue: "call" or "returned"
    ocrResults,     \* best-value loop: the three {text, confidence} results
    idx,            \* best-value loop: the next index i (1-based)
    best,           \* best-value loop: bestValue and bestConfidence
    width,          \* processImage: metadata.width
    height,         \* processImage: metadata.height
    quadrants,      \* processImage: the quadrants object, <<>> before it is built
    image,          \* what the OCR engine reads in each quadrant variant
    mpc,            \* main: where the script is
    pc,             \* per Parameter: where its async pipeline is
    ocrDone,        \* per Parameter: the OCR promises that have resolved
    results,        \* processImage: the results object (a partial map)
    request,        \* the update sent to the database and not yet answered
    store,          \* the records the database has applied, oldest first
    ref,            \* the database path of the update in flight
    db,             \* the database: unit id -> record (field -> value)
    updateCalls,    \* how many times update() has been called
    imagePath,      \* main: process.argv[2]
    basename,       \* extractUnitId: the basename without extension
    unitId,         \* main: the unit id, <<>> before it is computed
    files,          \* workflow: the lines of /tmp/files_to_process.txt
    regular,        \* workflow: the paths that are regular files in the checkout
    wpc,            \* workflow: where the job is
    fileIdx,        \* workflow: the next line the while loop reads
    SUCCESS_COUNT,  \* workflow: files the script processed successfully
    FAILED_COUNT,   \* workflow: files counted as failed
    PROCESSED_FILES, \* workflow: the string of processed file names
    outcome,        \* workflow: what happened to each file read so far
    cleanupIdx,     \* workflow: the next word of the for loop of the cleanup
    removed,        \* workflow: the paths given to git rm
    DELETED_COUNT,  \* workflow: how many paths were given to git rm
    RETRY_COUNT,    \* workflow: failed pushes so far
    pushes          \* workflow: the outcome of every git push, in order

extractVars == <<text, numbers, validNumbers, value, epc>>
loopVars == <<ocrResults, idx, best>>
partVars == <<width, height, quadrants>>
mainVars == <<image, mpc, pc, ocrDone, results, request, store, ref, db,
              updateCalls>>
unitVars == <<imagePath, basename, unitId>>
workVars == <<files, regular, wpc, fileIdx, SUCCESS_COUNT, FAILED_COUNT,
              PROCESSED_FILES, outcome, cleanupIdx, removed, DELETED_COUNT,
              RETRY_COUNT, pushes>>

vars == <<text, numbers, param, validNumbers, value, epc, ocrResults, idx,
          best, width, height, quadrants, image, mpc, pc, ocrDone, results,
          request, store, ref, db, updateCalls, imagePath, basename, unitId,
          files, regular, wpc, fileIdx, SUCCESS_COUNT, FAILED_COUNT,
          PROCESSED_FILES, outcome, cleanupIdx, removed, DELETED_COUNT,
          RETRY_COUNT, pushes>>

IdleExtract ==
    /\ text = <<>> /\ numbers = <<>> /\ validNumbers = <<>> /\ value = <<>>
    /\ epc = "idle"
IdleLoop == ocrResults = <<>> /\ idx = 0 /\ best = InitialBest
IdlePart == width = 0 /\ height = 0 /\ quadrants = <<>>
IdleMain ==
    /\ image = <<>> /\ mpc = "idle" /\ pc = <<>> /\ ocrDone = <<>>
    /\ results = <<>> /\ request = <<>> /\ store = <<>>
    /\ ref = <<>> /\ db = <<>> /\ updateCalls = 0
IdleUnit == imagePath = <<>> /\ basename = <<>> /\ unitId = <<>>
IdleWorkflow ==
    /\ files = <<>> /\ regular = {} /\ wpc = "idle" /\ fileIdx = 0
    /\ SUCCESS_COUNT = 0 /\ FAILED_COUNT = 0 /\ PROCESSED_FILES = <<>>
    /\ outcome = <<>> /\ cleanupIdx = 0 /\ removed = {}
    /\ DELETED_COUNT = 0 /\ RETRY_COUNT = 0 /\ pushes = <<>>

RECURSIVE SeqsUpTo(_, _)
SeqsUpTo(S, n) ==
    IF n = 0 THEN {<<>>}
    ELSE LET shorter == SeqsUpTo(S, n - 1)
         IN  shorter \cup {Append(s, c) : s \in shorter, c \in S}

Texts == SeqsUpTo(Alphabet, MaxLen)

\* --------------------------------- specification: extractNumericValue alone
InitExtract ==
    /\ text \in Texts
    /\ param \in Parameters
    /\ numbers = <<>>
    /\ validNumbers = <<>>
    /\ value = <<>>
    /\ epc = "call"
    /\ IdleLoop /\ IdlePart /\ IdleMain /\ IdleUnit /\ IdleWorkflow

ExtractNoNumbers ==
    /\ epc = "call"
    /\ Len(MatchNumbers(CleanText(text))) = 0
    /\ value' = extractNumericValue(text, param)
    /\ numbers' = <<>>
    /\ validNumbers' = <<>>
    /\ epc' = "returned"
    /\ UNCHANGED <<workVars, text, param, loopVars, partVars, mainVars, unitVars>>

ExtractSelect ==
    /\ epc = "call"
    /\ Len(MatchNumbers(CleanText(text))) > 0
    /\ numbers' = MatchNumbers(CleanText(text))
    /\ validNumbers' = ValidNumbers(MatchNumbers(CleanText(text)))
    /\ value' = extractNumericValue(text, param)
    /\ epc' = "returned"
    /\ UNCHANGED <<workVars, text, param, loopVars, partVars, mainVars, unitVars>>

NextExtract == ExtractNoNumbers \/ ExtractSelect

SpecExtract == InitExtract /\ [][NextExtract]_vars

\* ------------------------------------- specification: the best-value loop
\* OCR texts of the loop's inputs: no number, a zero reading, and the
\* readings 6.8, 22.5 and -3.0.
OCRTexts ==
    { <<>>, <<"0">>, <<"6", ".", "8">>, <<"2", "2", ".", "5">>,
      <<"-", "3", ".", "0">> }

\* Tesseract confidences (0..100) of the loop's inputs.
Confidences == {0, 40, 85}

Observations == [text : OCRTexts, confidence : Confidences]

NumVariants == 3

InitSelect ==
    /\ param \in Parameters
    /\ ocrResults \in [1..NumVariants -> Observations]
    /\ idx = 1
    /\ best = InitialBest
    /\ IdleExtract /\ IdlePart /\ IdleMain /\ IdleUnit /\ IdleWorkflow

LoopIteration ==
    /\ idx \in 1..Len(ocrResults)
    /\ best' = BestStep(best, ocrResults[idx], param)
    /\ idx' = idx + 1
    /\ UNCHANGED <<workVars, param, ocrResults, extractVars, partVars, mainVars, unitVars>>

NextSelect == LoopIteration

SpecSelect == InitSelect /\ [][NextSelect]_vars

\* ---------------------------------- specification: the quadrant partition
InitPartition ==
    /\ width \in 0..MaxSide
    /\ height \in 0..MaxSide
    /\ quadrants = <<>>
    /\ param = "pH"
    /\ IdleExtract /\ IdleLoop /\ IdleMain /\ IdleUnit /\ IdleWorkflow

ComputeQuadrants ==
    /\ quadrants = <<>>
    /\ quadrants' = Quadrants(width, height)
    /\ UNCHANGED <<workVars, width, height, param, extractVars, loopVars, mainVars,
                   unitVars>>

NextPartition == ComputeQuadrants

SpecPartition == InitPartition /\ [][NextPartition]_vars

\* ------------------------------------------ specification: extractUnitId
\* File paths are built from these pieces.
PathPieces ==
    { <<"u", "n", "i", "t">>, <<"U", "n", "i", "t">>, <<"_">>, <<"7">>,
      <<"_", "7">>, <<" ">>, <<".", "x">>, <<"x", "/">>, <<"x">> }

RECURSIVE Flatten(_)
Flatten(ps) == IF ps = <<>> THEN <<>> ELSE Head(ps) \o Flatten(Tail(ps))

\* The paths of files: not empty, not ending in a separator, and with a
\* basename other than "." and "..".
FilePaths ==
    {f \in {Flatten(ps) : ps \in SeqsUpTo(PathPieces, MaxPieces)} :
        /\ f # <<>>
        /\ f[Len(f)] # "/"
        /\ PathBasename(f) \notin {<<".">>, <<".", ".">>}}

InitUnitId ==
    /\ imagePath \in FilePaths
    /\ basename = <<>>
    /\ unitId = <<>>
    /\ param = "pH"
    /\ IdleExtract /\ IdleLoop /\ IdlePart /\ IdleMain /\ IdleWorkflow

\* extractUnitId returns the first two parts.
UnitIdFromParts ==
    /\ unitId = <<>>
    /\ Len(Split(BasenameNoExt(imagePath))) >= 2
    /\ basename' = BasenameNoExt(imagePath)
    /\ unitId' = extractUnitId(imagePath)
    /\ UNCHANGED <<workVars, imagePath, param, extractVars, loopVars, partVars,
                   mainVars>>

\* extractUnitId returns the unit number found by the pattern.
UnitIdFromMatch ==
    /\ unitId = <<>>
    /\ Len(Split(BasenameNoExt(imagePath))) < 2
    /\ UnitMatch(BasenameNoExt(imagePath)) # <<>>
    /\ basename' = BasenameNoExt(imagePath)
    /\ unitId' = extractUnitId(imagePath)
    /\ UNCHANGED <<workVars, imagePath, param, extractVars, loopVars, partVars,
                   mainVars>>

\* extractUnitId returns 'unit_1'.
UnitIdDefault ==
    /\ unitId = <<>>
    /\ Len(Split(BasenameNoExt(imagePath))) < 2
    /\ UnitMatch(BasenameNoExt(imagePath)) = <<>>
    /\ basename' = BasenameNoExt(imagePath)
    /\ unitId' = extractUnitId(imagePath)
    /\ UNCHANGED <<workVars, imagePath, param, extractVars, loopVars, partVars,
                   mainVars>>

NextUnitId == UnitIdFromParts \/ UnitIdFromMatch \/ UnitIdDefault

SpecUnitId == InitUnitId /\ [][NextUnitId]_vars

\* ------------------------------------------------ specification: main
Variants == 1..NumVariants

\* The await each pipeline is suspended at before its OCR calls are issued:
\* the toBuffer() of strategy 1, 2, 3.
PreStage == <<"basic", "contrast", "threshold">>

Obs(t, c) == [text |-> t, confidence |-> c]

\* A panel showing pH 7.4/7.1, temperature 22.5/-3.0, dissolved oxygen 6.8
\* on one variant only, and salinity 0 read with more confidence than 35.
GaugePanel ==
    [p \in Parameters |->
        CASE p = "pH" ->
                <<Obs(<<"7", ".", "4">>, 60), Obs(<<"7", ".", "1">>, 85),
                  Obs(<<>>, 0)>>
          [] p = "temperature" ->
                <<Obs(<<"2", "2", ".", "5">>, 60),
                  Obs(<<"-", "3", ".", "0">>, 85),
                  Obs(<<"2", "2", ".", "5">>, 85)>>
          [] p = "dissolvedOxygen" ->
                <<Obs(<<>>, 0), Obs(<<>>, 0), Obs(<<"6", ".", "8">>, 40)>>
          [] p = "salinity" ->
                <<Obs(<<"0">>, 90), Obs(<<"3", "5">>, 50), Obs(<<>>, 0)>>]

\* A panel on which the engine reads nothing.
BlankPanel == [p \in Parameters |-> [v \in Variants |-> Obs(<<" ">>, 0)]]

Images == {GaugePanel, BlankPanel}

\* .resize(coordinates.width * 2, coordinates.height * 2) throws on a size
\* that is not a positive integer.
ResizeThrows(coordinates) ==
    coordinates.width * 2 <= 0 \/ coordinates.height * 2 <= 0

\* A write that lands in one shared slot instead of the Parameter's own.
PutShared(res, parameter, v) == ("pH" :> v) @@ res

\* results[parameter] = v
Put(res, parameter, v) == (parameter :> v) @@ res

\* A catch block that resets the whole results object.
CaughtResetsAll(res, parameter) == [q \in Parameters |-> Placeholder]

\* A catch block that only logs the error.
CaughtLogsOnly(res, parameter) == res

\* The catch block of a pipeline.
Caught(res, parameter) == Put(res, parameter, Placeholder)

\* The catch blocks of the pipelines ps, run one after the other.
RECURSIVE CaughtEach(_, _)
CaughtEach(res, ps) ==
    IF ps = {} THEN res
    ELSE LET p == CHOOSE q \in ps : TRUE
         IN  CaughtEach(Caught(res, p), ps \ {p})

\* Promise.race in place of Promise.all: some pipeline has ended.
AnySettled == \E p \in Parameters : pc[p] \in {"done", "caught"}

\* Promise.all(processingPromises) has resolved: every pipeline has ended.
AllSettled == \A p \in Parameters : pc[p] \in {"done", "caught"}

\* { ...data, lastUpdated: timestamp, processedAt: TIMESTAMP }
DataWithTimestamp(data) ==
    [k \in DOMAIN data \cup {"lastUpdated", "processedAt"} |->
        IF k \in {"lastUpdated", "processedAt"} THEN <<"t">> ELSE data[k]]

Live == {"start", "metadata", "pipelines", "updating"}

\* The uploads of the runs: the path of the image file and what it shows.
Uploads ==
    { [path |-> <<"x", "/", "u", "n", "i", "t", "_", "7", "_", "x", ".", "x">>,
       panel |-> GaugePanel],
      [path |-> <<"x", "_", "7", ".", "x">>, panel |-> BlankPanel] }

\* The database before the run: unit_7 and unit_1 each have a record with
\* stale readings and a field the script does not know.
StoredRecord(ph, label) ==
    [k \in Parameters \cup {"lastUpdated", "processedAt", "label"} |->
        CASE k = "pH" -> ph
          [] k = "label" -> label
          [] k \in {"lastUpdated", "processedAt"} -> <<"s">>
          [] OTHER -> <<"1", ".", "0", "0">>]

InitialDb ==
    (<<"u", "n", "i", "t", "_", "7">> :> StoredRecord(<<"9", ".", "0", "0">>, <<"a">>))
    @@ (<<"u", "n", "i", "t", "_", "1">> :> StoredRecord(<<"8", ".", "0", "0">>, <<"b">>))

\* ref(unitId).set(data): the record is replaced as a whole.
ApplySet(d, r, data) == (r :> data) @@ d

\* ref(unitId).update(data) as the database applies it: the fields of data
\* are written under r, every other field and record stays.
ApplyUpdate(d, r, data) ==
    (r :> (data @@ (IF r \in DOMAIN d THEN d[r] ELSE <<>>))) @@ d

\* An updateFirebase whose catch block logs the error and returns.
ExitOnUpdateErrorSwallowed == "exit0"

\* update() rejects: updateFirebase rethrows, main's catch calls
\* process.exit(1).
ExitOnUpdateError == "exit1"

InitMain ==
    /\ \E u \in Uploads : imagePath = u.path /\ image = u.panel
    /\ basename = <<>>
    /\ unitId = <<>>
    /\ ref = <<>>
    /\ db = InitialDb
    /\ updateCalls = 0
    /\ width \in 0..MaxDim
    /\ height \in 0..MaxDim
    /\ quadrants = <<>>
    /\ mpc = "start"
    /\ pc = <<>>
    /\ ocrDone = <<>>
    /\ results = <<>>
    /\ request = <<>>
    /\ store = <<>>
    /\ param = "pH"
    /\ IdleExtract /\ IdleLoop /\ IdleWorkflow

\* main up to process.exit(1): no argument, no such file, or an exception of
\* initFirebase or readFileSync.
MainExitEarly ==
    /\ mpc = "start"
    /\ mpc' = "exit1"
    /\ UNCHANGED <<workVars, image, pc, ocrDone, results, request, store, param,
                   ref, db, updateCalls, unitVars,
                   extractVars, loopVars, partVars>>

\* main up to the await of sharp(imageBuffer).metadata().
MainBegin ==
    /\ mpc = "start"
    /\ unitId' = extractUnitId(imagePath)
    /\ mpc' = "metadata"
    /\ UNCHANGED <<workVars, image, pc, ocrDone, results, request, store, param,
                   ref, db, updateCalls, imagePath, basename,
                   extractVars, loopVars, partVars>>

\* metadata() rejects: processImage rethrows, main exits with status 1.
MetadataReject ==
    /\ mpc = "metadata"
    /\ mpc' = "exit1"
    /\ UNCHANGED <<workVars, image, pc, ocrDone, results, request, store, param,
                   ref, db, updateCalls, unitVars,
                   extractVars, loopVars, partVars>>

\* metadata() resolves: the quadrants are built and the four pipelines are
\* started, each running up to its first await (or through its catch block
\* when the first resize throws).
StartPipelines ==
    /\ mpc = "metadata"
    /\ quadrants' = Quadrants(width, height)
    /\ LET thrown == {p \in Parameters : ResizeThrows(quadrants'[p])}
       IN  /\ pc' = [p \in Parameters |->
                        IF p \in thrown THEN "caught" ELSE PreStage[1]]
           /\ results' = CaughtEach(<<>>, thrown)
    /\ ocrDone' = [p \in Parameters |-> {}]
    /\ mpc' = "pipelines"
    /\ UNCHANGED <<workVars, image, width, height, request, store, param,
                   ref, db, updateCalls, unitVars,
                   extractVars, loopVars>>

\* A toBuffer() resolves: the next strategy is started, or after the third
\* the three OCR calls are issued and Promise.all awaited.
PreprocessDone(p) ==
    /\ mpc = "pipelines"
    /\ \E k \in 1..NumVariants :
        /\ pc[p] = PreStage[k]
        /\ pc' = [pc EXCEPT ![p] = IF k < NumVariants THEN PreStage[k + 1]
                                   ELSE "ocr"]
    /\ UNCHANGED <<workVars, image, mpc, ocrDone, results, request, store, param,
                   ref, db, updateCalls, unitVars,
                   extractVars, loopVars, partVars>>

\* A toBuffer() rejects: the catch block runs.
PreprocessFail(p) ==
    /\ mpc = "pipelines"
    /\ \E k \in 1..NumVariants : pc[p] = PreStage[k]
    /\ results' = Caught(results, p)
    /\ pc' = [pc EXCEPT ![p] = "caught"]
    /\ UNCHANGED <<workVars, image, mpc, ocrDone, request, store, param,
                   ref, db, updateCalls, unitVars,
                   extractVars, loopVars, partVars>>

\* Tesseract.recognize of variant v resolves.
OcrResolve(p, v) ==
    /\ mpc = "pipelines"
    /\ pc[p] = "ocr"
    /\ v \notin ocrDone[p]
    /\ ocrDone' = [ocrDone EXCEPT ![p] = @ \cup {v}]
    /\ UNCHANGED <<workVars, image, mpc, pc, results, request, store, param,
                   ref, db, updateCalls, unitVars,
                   extractVars, loopVars, partVars>>

\* Tesseract.recognize of variant v rejects: Promise.all(ocrPromises)
\* rejects and the catch block runs.
OcrReject(p, v) ==
    /\ mpc = "pipelines"
    /\ pc[p] = "ocr"
    /\ v \notin ocrDone[p]
    /\ results' = Caught(results, p)
    /\ pc' = [pc EXCEPT ![p] = "caught"]
    /\ UNCHANGED <<workVars, image, mpc, ocrDone, request, store, param,
                   ref, db, updateCalls, unitVars,
                   extractVars, loopVars, partVars>>

\* Promise.all(ocrPromises) resolves: the loop runs and the slot is written.
SelectBest(p) ==
    /\ mpc = "pipelines"
    /\ pc[p] = "ocr"
    /\ ocrDone[p] = Variants
    /\ results' = Put(results, p, BestValue(image[p], p))
    /\ pc' = [pc EXCEPT ![p] = "done"]
    /\ UNCHANGED <<workVars, image, mpc, ocrDone, request, store, param,
                   ref, db, updateCalls, unitVars,
                   extractVars, loopVars, partVars>>

\* Promise.all(processingPromises) resolves: processImage returns results
\* and main calls updateFirebase, which sends the update.
ProcessImageReturn ==
    /\ mpc = "pipelines"
    /\ AllSettled
    /\ request' = <<DataWithTimestamp(results)>>
    /\ ref' = unitId
    /\ updateCalls' = updateCalls + 1
    /\ mpc' = "updating"
    /\ UNCHANGED <<workVars, image, pc, ocrDone, results, store, param,
                   db, unitVars,
                   extractVars, loopVars, partVars>>

\* The database applies the update; a script still waiting ends normally.
ServerApply ==
    /\ request # <<>>
    /\ store' = Append(store, request[1])
    /\ db' = ApplyUpdate(db, ref, request[1])
    /\ request' = <<>>
    /\ ref' = <<>>
    /\ mpc' = IF mpc = "updating" THEN "exit0" ELSE mpc
    /\ UNCHANGED <<workVars, image, pc, ocrDone, results, param,
                   updateCalls, unitVars,
                   extractVars, loopVars, partVars>>

\* The update fails: updateFirebase rethrows, main exits with status 1.
ServerReject ==
    /\ request # <<>>
    /\ request' = <<>>
    /\ ref' = <<>>
    /\ mpc' = IF mpc = "updating" THEN ExitOnUpdateError ELSE mpc
    /\ UNCHANGED <<workVars, image, pc, ocrDone, results, store, param,
                   db, updateCalls, unitVars,
                   extractVars, loopVars, partVars>>

\* The job runner's timeout kills the process; its memory is gone, an
\* update already sent stays in flight.
Timeout ==
    /\ mpc \in Live
    /\ mpc' = "killed"
    /\ pc' = <<>>
    /\ ocrDone' = <<>>
    /\ results' = <<>>
    /\ quadrants' = <<>>
    /\ unitId' = <<>>
    /\ UNCHANGED <<workVars, image, width, height, request, store, param,
                   ref, db, updateCalls, imagePath, basename,
                   extractVars, loopVars>>

Next ==
    \/ MainExitEarly
    \/ MainBegin
    \/ MetadataReject
    \/ StartPipelines
    \/ \E p \in Parameters : PreprocessDone(p)
    \/ \E p \in Parameters : PreprocessFail(p)
    \/ \E p \in Parameters, v \in Variants : OcrResolve(p, v)
    \/ \E p \in Parameters, v \in Variants : OcrReject(p, v)
    \/ \E p \in Parameters : SelectBest(p)
    \/ ProcessImageReturn
    \/ ServerApply
    \/ ServerReject
    \/ Timeout

Spec == InitMain /\ [][Next]_vars

\* ------------------------------- specification: the workflow's two steps
\* A file name is a sequence of tokens: words without blanks, separated by
\* the blank token.
Blank == " "
Words == {"images/a", "images/c.jpg", "b.jpg"}

\* grep '^images/'
StartsWithImages(w) == w \in {"images/a", "images/c.jpg"}

\* grep -E '\.(jpg|jpeg|png|webp|tiff|bmp)$'
EndsWithImageExt(w) == w \in {"images/c.jpg", "b.jpg"}

RECURSIVE JoinWords(_)
JoinWords(ws) ==
    IF Len(ws) = 1 THEN ws
    ELSE <<Head(ws), Blank>> \o JoinWords(Tail(ws))

\* The names that pass both grep filters.
ImageNames ==
    {JoinWords(ws) : ws \in {x \in SeqsUpTo(Words, MaxWords) :
                                /\ x # <<>>
                                /\ StartsWithImages(x[1])
                                /\ EndsWithImageExt(x[Len(x)])}}

\* The byte order of the tokens.
TokenRank(t) ==
    CASE t = Blank -> 0
      [] t = "b.jpg" -> 1
      [] t = "images/a" -> 2
      [] t = "images/c.jpg" -> 3

\* git diff --name-only lists the paths in byte order.
NameLess(a, b) ==
    \E k \in 1..(Len(a) + 1) :
        /\ \A j \in 1..(k - 1) : j <= Len(b) /\ a[j] = b[j]
        /\ \/ k > Len(a) /\ k <= Len(b)
           \/ k <= Len(a) /\ k <= Len(b) /\ TokenRank(a[k]) < TokenRank(b[k])

\* The possible contents of /tmp/files_to_process.txt.
FileLists ==
    {l \in SeqsUpTo(ImageNames, MaxFiles) :
        /\ l # <<>>
        /\ \A i, j \in 1..Len(l) : i < j => NameLess(l[i], l[j])}

\* Word splitting of an unquoted expansion: the blanks separate the words.
WordSplit(str) == SelectSeq(str, LAMBDA t : t # Blank)

MAX_RETRIES == 3

\* [ $RETRY_COUNT -eq $MAX_RETRIES ] with the test one attempt late.
ExhaustedLate(count) == count = MAX_RETRIES + 1

\* [ $RETRY_COUNT -eq $MAX_RETRIES ]
Exhausted(count) == count = MAX_RETRIES

Ended == {"skipped", "cleaned", "failed"}

\* A listed path that is not a regular file is a symbolic link without
\* target.
InitWorkflow ==
    /\ files \in FileLists
    /\ regular \in SUBSET {files[i] : i \in 1..Len(files)}
    /\ wpc = "process"
    /\ fileIdx = 1
    /\ SUCCESS_COUNT = 0
    /\ FAILED_COUNT = 0
    /\ PROCESSED_FILES = <<>>
    /\ outcome = <<>>
    /\ cleanupIdx = 0
    /\ removed = {}
    /\ DELETED_COUNT = 0
    /\ RETRY_COUNT = 0
    /\ pushes = <<>>
    /\ param = "pH"
    /\ IdleExtract /\ IdleLoop /\ IdlePart /\ IdleMain /\ IdleUnit

\* timeout 300 node scripts/process-image.js "$file" exits with status 0.
ProcessSucceeds ==
    /\ wpc = "process"
    /\ fileIdx <= Len(files)
    /\ files[fileIdx] \in regular
    /\ SUCCESS_COUNT' = SUCCESS_COUNT + 1
    /\ PROCESSED_FILES' = PROCESSED_FILES \o files[fileIdx] \o <<Blank>>
    /\ outcome' = (files[fileIdx] :> "success") @@ outcome
    /\ fileIdx' = fileIdx + 1
    /\ UNCHANGED <<files, regular, wpc, FAILED_COUNT, cleanupIdx, removed,
                   DELETED_COUNT, RETRY_COUNT, pushes, param, extractVars,
                   loopVars, partVars, mainVars, unitVars>>

\* The script exits with a non-zero status, or timeout kills it.
ProcessFails(how) ==
    /\ wpc = "process"
    /\ fileIdx <= Len(files)
    /\ files[fileIdx] \in regular
    /\ FAILED_COUNT' = FAILED_COUNT + 1
    /\ outcome' = (files[fileIdx] :> how) @@ outcome
    /\ fileIdx' = fileIdx + 1
    /\ UNCHANGED <<files, regular, wpc, SUCCESS_COUNT, PROCESSED_FILES,
                   cleanupIdx, removed, DELETED_COUNT, RETRY_COUNT, pushes,
                   param, extractVars, loopVars, partVars, mainVars, unitVars>>

\* [ -f "$file" ] fails.
FileNotFound ==
    /\ wpc = "process"
    /\ fileIdx <= Len(files)
    /\ files[fileIdx] \notin regular
    /\ FAILED_COUNT' = FAILED_COUNT + 1
    /\ outcome' = (files[fileIdx] :> "missing") @@ outcome
    /\ fileIdx' = fileIdx + 1
    /\ UNCHANGED <<files, regular, wpc, SUCCESS_COUNT, PROCESSED_FILES,
                   cleanupIdx, removed, DELETED_COUNT, RETRY_COUNT, pushes,
                   param, extractVars, loopVars, partVars, mainVars, unitVars>>

\* The while loop is over; the cleanup step runs if success_count > 0.
EndProcessing ==
    /\ wpc = "process"
    /\ fileIdx > Len(files)
    /\ wpc' = IF SUCCESS_COUNT > 0 THEN "cleanup" ELSE "skipped"
    /\ cleanupIdx' = IF SUCCESS_COUNT > 0 THEN 1 ELSE cleanupIdx
    /\ UNCHANGED <<files, regular, fileIdx, SUCCESS_COUNT, FAILED_COUNT,
                   PROCESSED_FILES, outcome, removed, DELETED_COUNT,
                   RETRY_COUNT, pushes, param, extractVars, loopVars,
                   partVars, mainVars, unitVars>>

\* for file in $PROCESSED_FILES: the word is a regular file, git rm "$file".
RemoveFile ==
    /\ wpc = "cleanup"
    /\ cleanupIdx <= Len(WordSplit(PROCESSED_FILES))
    /\ LET file == <<WordSplit(PROCESSED_FILES)[cleanupIdx]>>
       IN  /\ file \in regular
           /\ regular' = regular \ {file}
           /\ removed' = removed \cup {file}
    /\ DELETED_COUNT' = DELETED_COUNT + 1
    /\ cleanupIdx' = cleanupIdx + 1
    /\ UNCHANGED <<files, wpc, fileIdx, SUCCESS_COUNT, FAILED_COUNT,
                   PROCESSED_FILES, outcome, RETRY_COUNT, pushes, param,
                   extractVars, loopVars, partVars, mainVars, unitVars>>

\* for file in $PROCESSED_FILES: the word is not a regular file.
SkipWord ==
    /\ wpc = "cleanup"
    /\ cleanupIdx <= Len(WordSplit(PROCESSED_FILES))
    /\ <<WordSplit(PROCESSED_FILES)[cleanupIdx]>> \notin regular
    /\ cleanupIdx' = cleanupIdx + 1
    /\ UNCHANGED <<files, regular, wpc, fileIdx, SUCCESS_COUNT, FAILED_COUNT,
                   PROCESSED_FILES, outcome, removed, DELETED_COUNT,
                   RETRY_COUNT, pushes, param, extractVars, loopVars,
                   partVars, mainVars, unitVars>>

\* The for loop is over: git commit and the retry loop if DELETED_COUNT > 0.
EndCleanup ==
    /\ wpc = "cleanup"
    /\ cleanupIdx > Len(WordSplit(PROCESSED_FILES))
    /\ wpc' = IF DELETED_COUNT > 0 THEN "push" ELSE "cleaned"
    /\ RETRY_COUNT' = 0
    /\ UNCHANGED <<files, regular, fileIdx, SUCCESS_COUNT, FAILED_COUNT,
                   PROCESSED_FILES, outcome, cleanupIdx, removed,
                   DELETED_COUNT, pushes, param, extractVars, loopVars,
                   partVars, mainVars, unitVars>>

\* git push succeeds: break.
PushSucceeds ==
    /\ wpc = "push"
    /\ RETRY_COUNT < MAX_RETRIES
    /\ pushes' = Append(pushes, "ok")
    /\ wpc' = "cleaned"
    /\ UNCHANGED <<files, regular, fileIdx, SUCCESS_COUNT, FAILED_COUNT,
                   PROCESSED_FILES, outcome, cleanupIdx, removed,
                   DELETED_COUNT, RETRY_COUNT, param, extractVars, loopVars,
                   partVars, mainVars, unitVars>>

\* git push fails: count it, exit 1 when exhausted, else test the loop
\* condition again.
PushFails ==
    /\ wpc = "push"
    /\ RETRY_COUNT < MAX_RETRIES
    /\ pushes' = Append(pushes, "failed")
    /\ RETRY_COUNT' = RETRY_COUNT + 1
    /\ wpc' = IF Exhausted(RETRY_COUNT') THEN "failed"
              ELSE IF RETRY_COUNT' < MAX_RETRIES THEN "push"
              ELSE "cleaned"
    /\ UNCHANGED <<files, regular, fileIdx, SUCCESS_COUNT, FAILED_COUNT,
                   PROCESSED_FILES, outcome, cleanupIdx, removed,
                   DELETED_COUNT, param, extractVars, loopVars, partVars,
                   mainVars, unitVars>>

NextWorkflow ==
    \/ ProcessSucceeds
    \/ \E how \in {"error", "timeout"} : ProcessFails(how)
    \/ FileNotFound
    \/ EndProcessing
    \/ RemoveFile
    \/ SkipWord
    \/ EndCleanup
    \/ PushSucceeds
    \/ PushFails

SpecWorkflow == InitWorkflow /\ [][NextWorkflow]_vars

\* Every command of the two steps returns (the script is under timeout 300),
\* so the shell always goes on to its next command.
SpecWorkflowFair == SpecWorkflow /\ WF_vars(NextWorkflow)

\* ------------------------------------------------------------ properties
NoDigit(t) == \A i \in 1..Len(t) : t[i] \notin Digits

\* The rendering of the number zero.
ZeroRendering == ToFixed2(ParseFloat(<<"0">>))

\* C1: for a text without any digit, extractNumericValue returns a "no
\* value" sentinel that differs from the rendering of the number zero.
C1_NoValueIsNotZero ==
    (epc = "returned" /\ NoDigit(text)) => value # ZeroRendering

\* The variants whose OCR text yields a parsed value.
Candidates == {i \in 1..Len(ocrResults) : ~NoDigit(ocrResults[i].text)}

\* The earliest of the candidates with the highest confidence.
Winner ==
    CHOOSE w \in Candidates :
        \A i \in Candidates :
            \/ ocrResults[i].confidence < ocrResults[w].confidence
            \/ ocrResults[i].confidence = ocrResults[w].confidence /\ w <= i

LoopDone == ocrResults # <<>> /\ idx = Len(ocrResults) + 1

\* C2: after the loop, the selected value is that of the earliest variant
\* with the highest confidence among the variants that yield a parsed value,
\* a parsed value of zero included.
C2_HighestConfidenceWins ==
    (LoopDone /\ Candidates # {}) =>
        best.value = extractNumericValue(ocrResults[Winner].text, param)

\* C3: after the loop, the Parameter holds the "no value" marker if and only
\* if no variant yields a parsed value.
C3_NoValueIffNoCandidate ==
    LoopDone => ((best.value = Placeholder) <=> (Candidates = {}))

\* The closed range of each Parameter, as <<min, max>>.
ClosedRange ==
    [p \in Parameters |->
        CASE p = "pH" -> <<0, 14>>
          [] p = "temperature" -> <<0 - 10, 60>>
          [] p = "dissolvedOxygen" -> <<0, 25>>
          [] p = "salinity" -> <<0, 50>>]

Within(n, p) == NumGeq(n, ClosedRange[p][1]) /\ NumLeq(n, ClosedRange[p][2])

\* C4: the returned string renders the first parsed value that lies in the
\* Parameter's closed range, and the first parsed value if none does.
C4_RangePreference ==
    (epc = "returned" /\ validNumbers # <<>>) =>
        LET hits == {i \in 1..Len(validNumbers) : Within(validNumbers[i], param)}
            pick == IF hits = {} THEN 1
                    ELSE CHOOSE i \in hits : \A j \in hits : i <= j
        IN  value = ToFixed2(validNumbers[pick])

\* C4 witness: the first value is out of range and a later one is in range.
C4_Witness ==
    /\ epc = "returned"
    /\ Len(validNumbers) >= 2
    /\ ~Within(validNumbers[1], param)
    /\ Within(validNumbers[2], param)
    /\ value = ToFixed2(validNumbers[2])

\* The variants of p whose OCR call resolved with a parsed value.
Successful(p) == {v \in ocrDone[p] : ~NoDigit(image[p][v].text)}

\* C5: when processImage returns, a Parameter of which one variant resolved
\* with a parsed value holds the value of such a variant, whatever happened
\* to its other variants.
C5_VariantIsolation ==
    mpc = "updating" =>
        \A p \in Parameters :
            Successful(p) # {} =>
                results[p] \in {extractNumericValue(image[p][v].text, p) :
                                    v \in Successful(p)}

\* The ExtractionResult of a run on which nothing fails.
FailureFreeResult(img) ==
    IF img = GaugePanel
    THEN [p \in Parameters |->
            CASE p = "pH" -> <<"7", ".", "1", "0">>
              [] p = "temperature" -> <<"-", "3", ".", "0", "0">>
              [] p = "dissolvedOxygen" -> <<"6", ".", "8", "0">>
              [] p = "salinity" -> <<"3", "5", ".", "0", "0">>]
    ELSE [p \in Parameters |-> <<"0", ".", "0", "0">>]

\* C6: once the pipelines run, processImage never rejects, and when it
\* returns, every Parameter whose own pipeline did not fail holds the value
\* of the failure-free run, in every interleaving.
C6_ParameterIsolation ==
    [][ /\ mpc = "pipelines" => mpc' \in {"pipelines", "updating", "killed"}
        /\ (mpc = "pipelines" /\ mpc' = "updating") =>
              \A q \in Parameters :
                  pc'[q] = "done" => results'[q] = FailureFreeResult(image)[q]
      ]_vars

\* C6 witness: processImage returned, one pipeline failed and another one
\* holds a reading.
C6_Witness ==
    /\ mpc = "updating"
    /\ \E p, q \in Parameters :
        /\ pc[p] = "caught"
        /\ pc[q] = "done"
        /\ results[q] # Placeholder

\* A string of the form [-]d+.dd
IsFixed2(s) ==
    /\ Len(s) >= 4
    /\ s[Len(s) - 2] = "."
    /\ s[Len(s) - 1] \in Digits /\ s[Len(s)] \in Digits
    /\ \A i \in 1..(Len(s) - 3) : s[i] \in Digits \/ (i = 1 /\ s[i] = "-")

\* C7: whenever processImage returns, results has exactly the four keys,
\* each holding a formatted value or the placeholder.
C7_FourKeys ==
    mpc = "updating" =>
        /\ DOMAIN results = Parameters
        /\ \A p \in Parameters : IsFixed2(results[p])

\* C7 witness: processImage returned although every OCR-stage pipeline but
\* one failed at a different point.
C7_Witness ==
    /\ mpc = "updating"
    /\ DOMAIN results = Parameters
    /\ \E p, q \in Parameters :
        /\ pc[p] = "caught" /\ ocrDone[p] = {}
        /\ pc[q] = "caught" /\ ocrDone[q] # {}

\* C8: the update is sent at most once, only when all four pipelines have
\* ended and with all four parameter fields; the store changes only by
\* applying that update; a run that ended before sending leaves it empty.
C8_AllOrNothing ==
    /\ [](/\ Len(store) + Len(request) <= 1
          /\ \A i \in 1..Len(store) : Parameters \subseteq DOMAIN store[i]
          /\ (mpc \in {"start", "metadata", "pipelines"} =>
                 store = <<>> /\ request = <<>>))
    /\ [][ /\ (request' # request /\ request' # <<>>) =>
                /\ mpc = "pipelines"
                /\ \A p \in Parameters : pc[p] \in {"done", "caught"}
                /\ Parameters \subseteq DOMAIN request'[1]
                /\ store = <<>> /\ request = <<>>
           /\ (store' # store) => (request # <<>> /\ store' = <<request[1]>>)
           /\ (mpc' \in {"exit1", "killed"} /\ request = <<>> /\ store = <<>>) =>
                (request' = <<>> /\ store' = <<>>)
           /\ (mpc \in {"exit1", "killed"} /\ request = <<>>) =>
                store' = store
         ]_vars

\* C8 witness: the record of a run with a failed pipeline and a reading has
\* been applied.
C8_Witness ==
    /\ mpc = "exit0"
    /\ Len(store) = 1
    /\ \E p, q \in Parameters :
        /\ pc[p] = "caught"
        /\ pc[q] = "done" /\ store[1][q] # Placeholder

\* C9: an image whose reported width or height is not positive stops the
\* run before the quadrants are computed: no result, nothing persisted.
C9_InvalidDimensionsRejected ==
    (width <= 0 \/ height <= 0) =>
        /\ quadrants = <<>>
        /\ mpc \in {"start", "metadata", "exit1", "killed"}
        /\ request = <<>> /\ store = <<>>

\* The pixels of a region.
Pixels(r) ==
    {<<x, y>> : x \in r.left..(r.left + r.width - 1),
                y \in r.top..(r.top + r.height - 1)}

\* C10: the four regions are the quadrants of halves floor(W/2), floor(H/2)
\* in the fixed assignment; they do not overlap, lie inside the image, and
\* tile it when W and H are even.
C10_QuadrantPartition ==
    quadrants # <<>> =>
        LET hw == CHOOSE k \in 0..width : 2 * k <= width /\ width < 2 * k + 2
            hh == CHOOSE k \in 0..height : 2 * k <= height /\ height < 2 * k + 2
            all == (0..(width - 1)) \X (0..(height - 1))
        IN  /\ quadrants["pH"] =
                 [left |-> 0, top |-> 0, width |-> hw, height |-> hh]
            /\ quadrants["temperature"] =
                 [left |-> hw, top |-> 0, width |-> hw, height |-> hh]
            /\ quadrants["dissolvedOxygen"] =
                 [left |-> 0, top |-> hh, width |-> hw, height |-> hh]
            /\ quadrants["salinity"] =
                 [left |-> hw, top |-> hh, width |-> hw, height |-> hh]
            /\ \A p, q \in Parameters :
                 p # q => Pixels(quadrants[p]) \cap Pixels(quadrants[q]) = {}
            /\ \A p \in Parameters : Pixels(quadrants[p]) \subseteq all
            /\ (width % 2 = 0 /\ height % 2 = 0) =>
                 UNION {Pixels(quadrants[p]) : p \in Parameters} = all

\* C10 witness: the quadrants of an image with an odd width.
C10_Witness ==
    /\ quadrants # <<>>
    /\ width = 5 /\ height = 4
    /\ quadrants["salinity"].left = 2 /\ quadrants["salinity"].top = 2

\* C11: the ExtractionResult of a run on which the engine answers every call
\* is determined by the image alone, whatever the order in which the
\* pipelines and their OCR calls complete; so is the result for an image too
\* small to have quadrants.
C11_Determinism ==
    mpc = "updating" =>
        /\ (\A p \in Parameters : pc[p] = "done") =>
              results = FailureFreeResult(image)
        /\ (width < 2 \/ height < 2) =>
              results = [p \in Parameters |-> <<"0", ".", "0", "0">>]

\* C11 witness: a run without failure returned; the temperature tie between
\* the second and the third variant went to the second.
C11_Witness ==
    /\ mpc = "updating"
    /\ \A p \in Parameters : pc[p] = "done"
    /\ image["temperature"][2].confidence = image["temperature"][3].confidence
    /\ results["temperature"] = <<"-", "3", ".", "0", "0">>

\* C12: update() is called at most once; when it fails the script ends with
\* exit status 1, and exit status 0 is reached only with the record applied.
C12_PersistenceFailureFatal ==
    /\ updateCalls <= 1
    /\ (updateCalls = 1 /\ request = <<>> /\ store = <<>> /\ mpc # "killed")
          => mpc = "exit1"
    /\ mpc = "exit0" => (Len(store) = 1 /\ updateCalls = 1)

\* C12 witness: the only update of the run has failed.
C12_Witness ==
    /\ mpc = "exit1"
    /\ updateCalls = 1
    /\ request = <<>> /\ store = <<>>
    /\ DOMAIN results = Parameters

\* The basename up to its second underscore.
UpToSecondUnderscore(b) ==
    LET us == {i \in 1..Len(b) : b[i] = "_"}
        first == CHOOSE i \in us : \A j \in us : i <= j
        later == us \ {first}
        stop == IF later = {} THEN Len(b) + 1
                ELSE CHOOSE i \in later : \A j \in later : i <= j
    IN  SubSeq(b, 1, stop - 1)

\* The digits that follow the leftmost position of starts.
DigitsAfter(b, starts, digitAt) ==
    LET i == CHOOSE k \in starts : \A j \in starts : k <= j
        d == digitAt[i]
        run == {n \in 1..Len(b) : \A m \in d..(d + n - 1) :
                                      m <= Len(b) /\ b[m] \in Digits}
    IN  SubSeq(b, d, d + Cardinality(run) - 1)

UnitUnderscore == <<"u", "n", "i", "t", "_">>

\* C13 as stated: the first two parts when there is an underscore; else
\* unit_<digits> when the basename contains "unit" directly followed by
\* digits; else unit_1; never empty.
C13_UnitIdResolution ==
    basename # <<>> =>
        LET b == basename
            starts == {i \in 1..(Len(b) - 4) :
                          /\ SubSeq(b, i, i + 3) = <<"u", "n", "i", "t">>
                          /\ b[i + 4] \in Digits}
            digitAt == [i \in starts |-> i + 4]
        IN  /\ unitId # <<>>
            /\ unitId =
                 IF \E i \in 1..Len(b) : b[i] = "_"
                 THEN UpToSecondUnderscore(b)
                 ELSE IF starts # {}
                 THEN UnitUnderscore \o DigitsAfter(b, starts, digitAt)
                 ELSE UnitUnderscore \o <<"1">>

\* C13 amended: as C13, with "unit" in any letter case and any whitespace
\* between it and the digits.
C13_UnitIdResolutionAmended ==
    basename # <<>> =>
        LET b == basename
            gapEnd(i) ==
                CHOOSE k \in (i + 4)..(Len(b) + 1) :
                    /\ \A m \in (i + 4)..(k - 1) : b[m] = " "
                    /\ k > Len(b) \/ b[k] # " "
            starts == {i \in 1..(Len(b) - 4) :
                          /\ b[i] \in {"u", "U"} /\ b[i + 1] \in {"n", "N"}
                          /\ b[i + 2] \in {"i", "I"} /\ b[i + 3] \in {"t", "T"}
                          /\ gapEnd(i) <= Len(b)
                          /\ b[gapEnd(i)] \in Digits}
            digitAt == [i \in starts |-> gapEnd(i)]
        IN  /\ unitId # <<>>
            /\ unitId =
                 IF \E i \in 1..Len(b) : b[i] = "_"
                 THEN UpToSecondUnderscore(b)
                 ELSE IF starts # {}
                 THEN UnitUnderscore \o DigitsAfter(b, starts, digitAt)
                 ELSE UnitUnderscore \o <<"1">>

\* C13 witness: a basename without underscore, "Unit" in upper case and a
\* blank before the digit.
C13_Witness ==
    /\ basename = <<"U", "n", "i", "t", " ", "7">>
    /\ unitId = <<"u", "n", "i", "t", "_", "7">>

Settled == {"done", "caught"}

\* C14: a slot of results is written once, in the step in which its own
\* pipeline ends, never changed afterwards, and results is read only once
\* all four slots are written.
C14_OneWriterPerKey ==
    [][ mpc' # "killed" =>
          /\ \A p \in Parameters :
                /\ p \in DOMAIN results =>
                      (p \in DOMAIN results' /\ results'[p] = results[p])
                /\ (p \notin DOMAIN results /\ p \in DOMAIN results') =>
                      /\ pc'[p] \in Settled
                      /\ pc = <<>> \/ pc[p] \notin Settled
                /\ (pc' # <<>> /\ pc'[p] \in Settled) => p \in DOMAIN results'
          /\ (request' # request /\ request' # <<>>) =>
                DOMAIN results = Parameters
      ]_vars

\* C14 witness: two pipelines have written their slots, the others not yet.
C14_Witness ==
    /\ mpc = "pipelines"
    /\ Cardinality(DOMAIN results) = 2
    /\ \E p, q \in DOMAIN results : pc[p] = "done" /\ pc[q] = "caught"

\* The text with every character outside [\d.\s-] removed.
Stripped(t) == SelectSeq(t, LAMBDA c : c \in Digits \cup {".", " ", "-"})

\* The text with every character outside [\d.\s-] turned into a blank.
Blanked(t) ==
    [i \in 1..Len(t) |-> IF t[i] \in Digits \cup {".", " ", "-"} THEN t[i] ELSE " "]

\* tok has the form -?\d+\.?\d*
IsDecimal(tok) ==
    \E sign \in 0..1, int \in 1..Len(tok), dot \in 0..1 :
        /\ sign + int + dot <= Len(tok)
        /\ sign = 1 => tok[1] = "-"
        /\ \A i \in (sign + 1)..(sign + int) : tok[i] \in Digits
        /\ dot = 1 => tok[sign + int + 1] = "."
        /\ dot = 0 => sign + int = Len(tok)
        /\ \A i \in (sign + int + dot + 1)..Len(tok) : tok[i] \in Digits

\* toks are the greedy, left-to-right, non-overlapping decimals of w: they
\* lie in w in order, none can be extended, a minus sign before a token
\* belongs to it, and no digit is left outside them.
IsGreedyScan(toks, w) ==
    \E st \in [1..Len(toks) -> 1..Len(w)] :
        LET en(k) == st[k] + Len(toks[k]) - 1
            covered == UNION {st[k]..en(k) : k \in 1..Len(toks)}
        IN  /\ \A k \in 1..Len(toks) :
                  /\ IsDecimal(toks[k])
                  /\ en(k) <= Len(w)
                  /\ SubSeq(w, st[k], en(k)) = toks[k]
                  /\ k > 1 => en(k - 1) < st[k]
                  /\ en(k) < Len(w) => w[en(k) + 1] \notin Digits
                  /\ (en(k) < Len(w) /\ w[en(k) + 1] = ".") =>
                        \E i \in 1..Len(toks[k]) : toks[k][i] = "."
                  /\ (toks[k][1] # "-" /\ st[k] > 1 /\ w[st[k] - 1] = "-") =>
                        (k > 1 /\ en(k - 1) = st[k] - 1)
            /\ \A i \in 1..Len(w) : w[i] \in Digits => i \in covered

TimestampFields == {"lastUpdated", "processedAt"}

\* C16: the database changes only by an update under the unit id of the
\* run; it writes the four parameter fields and the two timestamp fields of
\* that record and leaves its other fields and all other records as they
\* were; what the script sends contains nothing of the stored record.
C16_UpdateFrame ==
    /\ [](request # <<>> =>
            /\ DOMAIN request[1] = Parameters \cup TimestampFields
            /\ ref = extractUnitId(imagePath))
    /\ [][ db' # db =>
            LET old == IF ref \in DOMAIN db THEN db[ref] ELSE <<>>
                written == Parameters \cup TimestampFields
            IN  /\ request # <<>>
                /\ DOMAIN db' = DOMAIN db \cup {ref}
                /\ \A u \in DOMAIN db : u # ref => db'[u] = db[u]
                /\ DOMAIN db'[ref] = DOMAIN old \cup written
                /\ \A f \in DOMAIN old \ written : db'[ref][f] = old[f]
                /\ \A f \in written : db'[ref][f] = request[1][f]
         ]_vars

\* C16 witness: the record of unit_7 has the new pH and its old label.
C16_Witness ==
    LET u == <<"u", "n", "i", "t", "_", "7">>
    IN  /\ db # <<>>
        /\ db[u]["pH"] = <<"7", ".", "1", "0">>
        /\ db[u]["label"] = <<"a">>
        /\ db[<<"u", "n", "i", "t", "_", "1">>]["pH"] = <<"8", ".", "0", "0">>

C18_OnlyProcessedRemoved ==
    /\ \A f \in removed : f \in DOMAIN outcome /\ outcome[f] = "success"
    /\ FAILED_COUNT =
          Cardinality({f \in DOMAIN outcome : outcome[f] # "success"})
    /\ wpc \notin {"idle", "process"} =>
          DOMAIN outcome = {files[i] : i \in 1..Len(files)}

=============================================================================
